---- MODULE Spec2Model ----
(***************************************************************************)
(* Model of backup_mkt.py: a fleet orchestrator that reads rt.csv, runs    *)
(* one backup job per router on a pool of four worker threads (connect,    *)
(* open SFTP, list, download latest.rsc and latest.backup, close), waits   *)
(* for the pool and then renames the backups older than DIAS_MAXIMOS days. *)
(*                                                                         *)
(* File names are sequences of one-character strings, so that endswith,    *)
(* replace and the f-string of the source are computed character by        *)
(* character.  Time is in seconds, as time.time() and os.path.getctime.    *)
(***************************************************************************)
EXTENDS Integers, Sequences, FiniteSets, Bags, TLC

(***************************************************************************)
(* Bounds of the model.                                                    *)
(***************************************************************************)
\* routers of the large fleets beyond the size of the pool
FlotaExtra == 1
\* routers of the fleets whose routers behave differently from each other
MaxMixtos == 2
\* entries of the backup directory before the first run
MaxDir == 2
\* runs of the program (the scheduler starts it again)
MaxRuns == 2

(***************************************************************************)
(* Program constants.                                                      *)
(***************************************************************************)
DIAS_MAXIMOS == 6
MAX_WORKERS == 4
SEGUNDOS_DIA == 24 * 3600

\* The clock of the first run: the eleventh day of the month, at midnight.
RelojInicial == 10 * SEGUNDOS_DIA
\* A week: the time between two scheduled runs.
Semana == 7 * SEGUNDOS_DIA

(***************************************************************************)
(* Strings.                                                                *)
(***************************************************************************)
EXT_RSC == <<".", "r", "s", "c">>
EXT_BACKUP == <<".", "b", "a", "c", "k", "u", "p">>
OLD == <<"-", "o", "l", "d">>
LATEST == <<"l", "a", "t", "e", "s", "t">>
LATEST_RSC == LATEST \o EXT_RSC
LATEST_BACKUP == LATEST \o EXT_BACKUP

\* archivos_deseados = ["latest.rsc", "latest.backup"]
archivos_deseados == <<LATEST_RSC, LATEST_BACKUP>>

\* str.endswith(suffix)
EndsWith(s, suf) ==
    /\ Len(s) >= Len(suf)
    /\ SubSeq(s, Len(s) - Len(suf) + 1, Len(s)) = suf

\* str.endswith((a, b)): any of the two suffixes
EndsWithAny(s, sufs) == \E suf \in sufs : EndsWith(s, suf)

\* str.replace(old, new): every non-overlapping occurrence, leftmost first
RECURSIVE Replace(_, _, _)
Replace(s, old, new) ==
    IF Len(s) < Len(old) THEN s
    ELSE IF SubSeq(s, 1, Len(old)) = old
         THEN new \o Replace(SubSeq(s, Len(old) + 1, Len(s)), old, new)
         ELSE <<Head(s)>> \o Replace(Tail(s), old, new)

Digito(n) == <<"0", "1", "2", "3", "4", "5", "6", "7", "8", "9">>[n + 1]

\* time.strftime("%Y%m%d"): the days of the model all fall in January 2024
Strftime(t) ==
    LET dia == (t \div SEGUNDOS_DIA) + 1
    IN  <<"2", "0", "2", "4", "0", "1", Digito(dia \div 10), Digito(dia % 10)>>

(***************************************************************************)
(* Exceptions: the classes the source names, and Python's subclass order.  *)
(***************************************************************************)
Bases(e) ==
    CASE e = "AuthenticationException" -> {"AuthenticationException", "SSHException"}
      [] e = "SSHException" -> {"SSHException"}
      [] e = "FileNotFoundError" -> {"FileNotFoundError", "OSError"}
      [] e = "PermissionError" -> {"PermissionError", "OSError"}
      [] e = "FileExistsError" -> {"FileExistsError", "OSError"}
      [] e = "OSError" -> {"OSError"}
      [] e = "IndexError" -> {"IndexError"}
      [] OTHER -> {}

\* The first except clause of `clausulas` that catches e; 0 when none does.
Clausula(clausulas, e) ==
    LET S == {k \in 1..Len(clausulas) : clausulas[k] \in Bases(e)}
    IN  IF S = {} THEN 0 ELSE CHOOSE k \in S : \A j \in S : k <= j

(***************************************************************************)
(* The inputs of a run: rt.csv, the routers' behaviour on the network, the *)
(* backup directory (the working directory) and the platform.              *)
(***************************************************************************)
IPS == <<"10.0.0.1", "10.0.0.2", "10.0.0.3", "10.0.0.4",
         "10.0.0.5", "10.0.0.6", "10.0.0.7", "10.0.0.8">>

\* Router names: r1, r2, ... and a router whose name holds an extension.
Nombre(i) == <<"r", Digito(i)>>
NOMBRE_PUNTO == <<"r", ".", "b", "a", "c", "k", "u", "p">>

\* What one sftp_client.get does: the exception it raises ("ok": none) and
\* whether the local file exists afterwards (get opens it before reading).
GetOK == [exc |-> "ok", local |-> TRUE]
GetFallos ==
    {[exc |-> e, local |-> FALSE] :
        e \in {"FileNotFoundError", "PermissionError", "SSHException", "OSError"}}
    \cup {[exc |-> "SSHException", local |-> TRUE]}

\* What a router does: the outcome of ssh.connect, of open_sftp, of listdir,
\* the remote listing and the outcome of the download of each wanted file.
Perfil(con, sftp, lst, remotos, g1, g2) ==
    [conexion |-> con, sftp |-> sftp, listar |-> lst, remotos |-> remotos,
     get |-> <<g1, g2>>]

OTRO_REMOTO == <<"f", "l", "a", "s", "h">>
PerfilOK == Perfil("ok", "ok", "ok", {LATEST_RSC, LATEST_BACKUP, OTRO_REMOTO}, GetOK, GetOK)
\* a router that holds neither export
PerfilVacio == Perfil("ok", "ok", "ok", {OTRO_REMOTO}, GetOK, GetOK)
PerfilSinAuth == Perfil("AuthenticationException", "ok", "ok", {}, GetOK, GetOK)
\* a router that cannot be reached
PerfilInalcanzable == Perfil("OSError", "ok", "ok", {}, GetOK, GetOK)
\* a router that accepts the session and refuses the SFTP subsystem
PerfilSinSftp == Perfil("ok", "SSHException", "ok", {}, GetOK, GetOK)

\* The source sets no timeout: a router that accepts the TCP connection and
\* then stays silent keeps ssh.connect, or a later call on the session,
\* from ever returning ("cuelga").
PerfilCuelga == Perfil("cuelga", "ok", "ok", {}, GetOK, GetOK)
PerfilCuelgaListado == Perfil("ok", "ok", "cuelga", {}, GetOK, GetOK)
Cuelga(p) == "cuelga" \in {p.conexion, p.sftp, p.listar}

PerfilesConexion ==
    {Perfil(e, "ok", "ok", {}, GetOK, GetOK) :
        e \in {"AuthenticationException", "SSHException", "OSError"}}
PerfilesCanal ==
    {Perfil("ok", e, "ok", {}, GetOK, GetOK) : e \in {"SSHException", "OSError"}}
    \cup {Perfil("ok", "ok", e, {}, GetOK, GetOK) : e \in {"SSHException", "OSError"}}
PerfilesListado ==
    {Perfil("ok", "ok", "ok", {LATEST_RSC, LATEST_BACKUP}, g1, g2) :
        g1 \in {GetOK} \cup GetFallos, g2 \in {GetOK} \cup GetFallos}
    \cup {Perfil("ok", "ok", "ok", {LATEST_RSC, OTRO_REMOTO}, g1, GetOK) :
        g1 \in {GetOK} \cup GetFallos}
    \cup {Perfil("ok", "ok", "ok", {LATEST_BACKUP}, GetOK, g2) :
        g2 \in {GetOK} \cup GetFallos}
    \cup {PerfilVacio}
Perfiles == PerfilesConexion \cup PerfilesCanal \cup PerfilesListado

\* rt.csv: whether the file exists, and its rows (each a list of fields).
Fila(i, nombre) == <<IPS[i], nombre>>
Csv(filas) == [existe |-> TRUE, filas |-> filas]
CsvAusente == [existe |-> FALSE, filas |-> <<>>]

RT_CSV == <<"r", "t", ".", "c", "s", "v">>
LOG_FILE == <<"b", "a", "c", "k", "u", "p", "_", "r", "o", "u", "t", "e", "r", ".", "l", "o", "g">>

\* A directory entry: the time os.path.getctime reports, and the error the
\* file system answers with when the entry is touched ("ninguna": none;
\* FileNotFoundError: a dangling link, at getctime; the others: at rename).
Entrada(ctime, falla) == [ctime |-> ctime, falla |-> falla]

\* The working directory holds the log (logging.basicConfig creates it) and
\* rt.csv when it exists, besides the backups `extra`.
DirInicial(c, extra) ==
    LET fijos == IF c.existe THEN {RT_CSV, LOG_FILE} ELSE {LOG_FILE}
    IN  [n \in fijos \cup DOMAIN extra |->
            IF n \in DOMAIN extra THEN extra[n] ELSE Entrada(0, "ninguna")]

\* Backups of an earlier day, the fourth of the month.
FECHA_VIEJA == <<"2", "0", "2", "4", "0", "1", "0", "4">>
NombreLocal(router_name, current_time, archivo) ==
    router_name \o <<"_">> \o current_time \o <<"_">> \o archivo
V_RSC == NombreLocal(Nombre(1), FECHA_VIEJA, LATEST_RSC)
V_RSC_OLD == NombreLocal(Nombre(1), FECHA_VIEJA, LATEST \o OLD \o EXT_RSC)
V_PUNTO == NombreLocal(NOMBRE_PUNTO, FECHA_VIEJA, LATEST_RSC)
V_BACKUP == NombreLocal(Nombre(2), FECHA_VIEJA, LATEST_BACKUP)
NombresViejos == {V_RSC, V_RSC_OLD, V_PUNTO, V_BACKUP}

\* Ages around the threshold at the first run: exactly DIAS_MAXIMOS days
\* (CtimeUmbral), one second more, and one day; and the entries that fail.
CtimeUmbral == RelojInicial - DIAS_MAXIMOS * SEGUNDOS_DIA
EntradasViejas(n) ==
    IF n = V_RSC
    THEN {Entrada(c, "ninguna") : c \in {CtimeUmbral, CtimeUmbral - 1, RelojInicial - SEGUNDOS_DIA}}
         \cup {Entrada(CtimeUmbral - 1, f) : f \in {"FileNotFoundError", "PermissionError", "OSError"}}
    ELSE IF n = V_BACKUP
    THEN {Entrada(c, "ninguna") : c \in {CtimeUmbral, CtimeUmbral - 1}}
    ELSE {Entrada(CtimeUmbral - 1, "ninguna")}

\* The directories of at most MaxDir old backups.
DirsViejos ==
    UNION {{d \in [S -> UNION {EntradasViejas(n) : n \in S}] :
               \A n \in S : d[n] \in EntradasViejas(n)} :
           S \in {T \in SUBSET NombresViejos : Cardinality(T) <= MaxDir}}

(***************************************************************************)
(* State.                                                                  *)
(***************************************************************************)
VARIABLES
    csv,         \* rt.csv
    red,         \* ip -> Perfil: how each router answers
    plataforma,  \* "posix" or "nt": what os.rename and getctime do
    reloj,       \* the system clock (seconds)
    dir,         \* the backup directory: file name -> Entrada
    log,         \* backup_router.log: a bag of log lines
    pc,          \* where the main thread is
    leidas,      \* rows of rt.csv the csv reader has yielded
    cola,        \* the executor's work queue: submitted jobs not yet started
    trabajo,     \* the jobs submitted, in order: each job's state
    ahora,       \* renombrar_backups_antiguos: time.time() at its start
    pendientes,  \* renombrar_backups_antiguos: the rest of os.listdir, in its order
    ejecucion,   \* the number of this run
    dirRotacion, \* history: the directory when the current rotation pass started
    renombres,   \* history: the renames <<old, new>> of the current rotation pass
    pasadas,     \* history: rotation passes completed in this run
    previa,      \* history: the last completed pass: its clock, renames and final directory
    repetida     \* history: this pass started on the directory and clock of `previa`

vars == <<csv, red, plataforma, reloj, dir, log, pc, leidas, cola, trabajo,
          ahora, pendientes, ejecucion, dirRotacion, renombres, pasadas, previa,
          repetida>>

historia == <<dirRotacion, renombres, pasadas, previa, repetida>>

entorno == <<csv, red, plataforma>>

\* A fleet of n routers r1..rn that all behave as p.
FlotaUniforme(n, p) ==
    /\ csv = Csv([i \in 1..n |-> Fila(i, Nombre(i))])
    /\ red = [ip \in {IPS[i] : i \in 1..n} |-> p]

\* The routers of the mixed fleets and the rows rt.csv may hold for them.
RedMixta == (IPS[1] :> PerfilOK) @@ (IPS[2] :> PerfilSinAuth)
FilasMixtas == {Fila(1, Nombre(1)), Fila(2, Nombre(2)), <<IPS[1]>>}

RECURSIVE SeqsHasta(_, _)
SeqsHasta(S, n) ==
    IF n = 0 THEN {<<>>}
    ELSE LET menores == SeqsHasta(S, n - 1)
         IN  menores \cup {Append(s, x) : s \in {t \in menores : Len(t) = n - 1}, x \in S}

\* Large fleets: more routers than workers.
FlotasGrandes ==
    /\ \E p \in {PerfilSinSftp, PerfilInalcanzable} :
          FlotaUniforme(MAX_WORKERS + FlotaExtra, p)
    /\ plataforma = "posix"
    /\ dir = DirInicial(csv, <<>>)

\* Mixed fleets, rows that are not well formed, a missing rt.csv.
FlotasMixtas ==
    /\ \/ \E filas \in SeqsHasta(FilasMixtas, MaxMixtos) : csv = Csv(filas)
       \/ csv = CsvAusente
    /\ red = RedMixta
    /\ plataforma = "posix"
    /\ dir \in {DirInicial(csv, <<>>),
                DirInicial(csv, V_RSC :> Entrada(CtimeUmbral - 1, "ninguna"))}

\* One router, every behaviour.
UnRouter ==
    /\ csv = Csv(<<Fila(1, Nombre(1))>>)
    /\ \E p \in Perfiles : red = (IPS[1] :> p)
    /\ plataforma = "posix"
    /\ dir = DirInicial(csv, <<>>)

\* No router or one, every directory of old backups, both platforms.
DirectoriosViejos ==
    /\ csv \in {Csv(<<>>), Csv(<<Fila(1, NOMBRE_PUNTO)>>)}
    /\ red = (IPS[1] :> PerfilOK)
    /\ plataforma \in {"posix", "nt"}
    /\ \E extra \in DirsViejos : dir = DirInicial(csv, extra)

\* Two routers that answer well and that rt.csv gives the same name.
Homonimos ==
    /\ csv = Csv(<<Fila(1, Nombre(1)), Fila(3, Nombre(1))>>)
    /\ red = (IPS[1] :> PerfilOK) @@ (IPS[3] :> PerfilOK)
    /\ plataforma = "posix"
    /\ dir = DirInicial(csv, <<>>)

\* A large fleet of unreachable routers among which the routers H never answer.
FlotaConCuelgue(H) ==
    LET n == MAX_WORKERS + FlotaExtra
    IN  /\ csv = Csv([i \in 1..n |-> Fila(i, Nombre(i))])
        /\ red = [ip \in {IPS[i] : i \in 1..n} |->
                    IF \E h \in H : ip = IPS[h] THEN PerfilCuelga ELSE PerfilInalcanzable]

\* The silent router is the first of the list, or the last, or there are as
\* many silent routers as workers.
FlotasConCuelgue ==
    /\ \E H \in {{1}, {MAX_WORKERS + FlotaExtra}, 1..MAX_WORKERS} : FlotaConCuelgue(H)
    /\ plataforma = "posix"
    /\ dir = DirInicial(csv, <<>>)

\* Two routers, the second one answering well and the first one silent (at
\* connect or once its session is open) or refusing the credentials; rt.csv
\* may end in a row that is not well formed.
ParConCuelgue ==
    /\ \E cola_csv \in {<<>>, <<<<IPS[1]>>>>} :
          csv = Csv(<<Fila(1, Nombre(1)), Fila(2, Nombre(2))>> \o cola_csv)
    /\ \E p \in {PerfilCuelga, PerfilCuelgaListado, PerfilSinAuth} :
          red = (IPS[1] :> p) @@ (IPS[2] :> PerfilOK)
    /\ plataforma = "posix"
    /\ dir = DirInicial(csv, <<>>)

InitEntorno ==
    FlotasGrandes \/ FlotasMixtas \/ UnRouter \/ DirectoriosViejos \/ Homonimos

InitResto ==
    /\ reloj = RelojInicial
    /\ log = EmptyBag
    /\ pc = "inicio"
    /\ leidas = 0
    /\ cola = <<>>
    /\ trabajo = <<>>
    /\ ahora = 0
    /\ pendientes = <<>>
    /\ ejecucion = 1
    /\ dirRotacion = <<>>
    /\ renombres = {}
    /\ pasadas = 0
    /\ previa = [hecha |-> FALSE, ahora |-> 0, renombres |-> {}, dir |-> <<>>]
    /\ repetida = FALSE

Init == InitEntorno /\ InitResto

(***************************************************************************)
(* Logging.                                                                *)
(***************************************************************************)
\* One line of backup_router.log: level, message and the message's arguments.
Linea(nivel, msg, ip, router, archivo, exc) ==
    [nivel |-> nivel, msg |-> msg, ip |-> ip, router |-> router,
     archivo |-> archivo, exc |-> exc]

Registrar(l, linea) == l (+) SetToBag({linea})

(***************************************************************************)
(* A backup job: respaldar_router on a worker thread of the executor.      *)
(***************************************************************************)
NuevoTrabajo(ip, nombre) ==
    [ip |-> ip, nombre |-> nombre, pc |-> "en_cola",
     sesion |-> "ninguna",  \* the SSH session: ninguna, abierta, cerrada
     fecha |-> <<>>,        \* current_time
     listado |-> {},        \* archivos_remotos
     k |-> 1,               \* index of the for loop over archivos_deseados
     escapada |-> "ninguna",\* the exception propagating out of the current frame
     conexiones |-> 0,      \* history: calls of ssh.connect
     cierres |-> 0,         \* history: calls of ssh_client.close
     intentados |-> {},     \* history: files sftp_client.get was called for
     escritos |-> {}]       \* history: local names written

Trabajos == 1..Len(trabajo)
EnCurso(j) == j.pc \notin {"en_cola", "terminado"}
\* Mutant: a worker that has run a job is not given another one.
Activos_SinLiberar == Cardinality({i \in Trabajos : trabajo[i].pc # "en_cola"})

\* The workers that are running a job.
Activos == Cardinality({i \in Trabajos : EnCurso(trabajo[i])})
SesionesAbiertas == Cardinality({i \in Trabajos : trabajo[i].sesion = "abierta"})
TodosTerminados == \A i \in Trabajos : trabajo[i].pc = "terminado"

\* The job's thread is inside a call to the router that never returns.
Colgado(j) ==
    \/ j.pc = "conectar" /\ red[j.ip].conexion = "cuelga"
    \/ j.pc = "abrir_sftp" /\ red[j.ip].sftp = "cuelga"
    \/ j.pc = "listar" /\ red[j.ip].listar = "cuelga"

\* Mutant: a thread per work item, whatever the number of busy workers.
Empezar_SinLimite(i) ==
    /\ cola # <<>>
    /\ Head(cola) = i
    /\ cola' = Tail(cola)
    /\ trabajo' = [trabajo EXCEPT ![i].pc = "conectar"]
    /\ UNCHANGED <<entorno, reloj, dir, log, pc, leidas, ahora, pendientes,
                   ejecucion, historia>>

\* Mutant: ThreadPoolExecutor(max_workers=1).
PuedeEmpezar_UnSoloHilo(i) ==
    /\ cola # <<>>
    /\ Head(cola) = i
    /\ Activos < 1

\* Job i is the next work item and a worker is free to take it.
PuedeEmpezar(i) ==
    /\ cola # <<>>
    /\ Head(cola) = i
    /\ Activos < MAX_WORKERS

\* A worker thread takes the next work item of the queue.
Empezar(i) ==
    /\ PuedeEmpezar(i)
    /\ cola' = Tail(cola)
    /\ trabajo' = [trabajo EXCEPT ![i].pc = "conectar"]
    /\ UNCHANGED <<entorno, reloj, dir, log, pc, leidas, ahora, pendientes,
                   ejecucion, historia>>

\* The except clauses of conectar_ssh, and their messages.
ClausulasConectar == <<"AuthenticationException", "SSHException", "OSError">>
MensajesConectar ==
    <<"Error de autenticacion al conectar al router",
      "Error SSH al conectar al router",
      "Error de sistema al conectar al router">>

\* Mutant: a failed connect gives up the fleet: the work items still in the
\* queue are cancelled.
Conectar_CancelaCola(i) ==
    LET j == trabajo[i]
        r == red[j.ip].conexion
        c == Clausula(ClausulasConectar, r)
        enCola == {cola[k] : k \in 1..Len(cola)}
    IN  /\ j.pc = "conectar"
        /\ ~Colgado(j)
        /\ trabajo' = [m \in Trabajos |->
              IF m = i
              THEN IF r = "ok"
                   THEN [j EXCEPT !.conexiones = @ + 1, !.sesion = "abierta", !.pc = "abrir_sftp"]
                   ELSE [j EXCEPT !.conexiones = @ + 1, !.pc = "terminado"]
              ELSE IF r # "ok" /\ m \in enCola
                   THEN [trabajo[m] EXCEPT !.pc = "terminado"]
                   ELSE trabajo[m]]
        /\ cola' = IF r = "ok" THEN cola ELSE <<>>
        /\ log' = IF r # "ok" /\ c > 0
                  THEN Registrar(log, Linea("ERROR", MensajesConectar[c], j.ip, <<>>, <<>>, r))
                  ELSE log
        /\ UNCHANGED <<entorno, reloj, dir, pc, leidas, ahora, pendientes,
                       ejecucion, historia>>

\* Mutant: a failed connect is tried once more before the router is given up.
Conectar_Reintenta(i) ==
    LET j == trabajo[i]
        r == red[j.ip].conexion
        c == Clausula(ClausulasConectar, r)
    IN  /\ j.pc = "conectar"
        /\ ~Colgado(j)
        /\ trabajo' = [trabajo EXCEPT ![i] =
              IF r = "ok"
              THEN [j EXCEPT !.conexiones = @ + 1, !.sesion = "abierta", !.pc = "abrir_sftp"]
              ELSE IF j.conexiones = 0
                   THEN [j EXCEPT !.conexiones = @ + 1]
                   ELSE [j EXCEPT !.conexiones = @ + 1, !.pc = "terminado"]]
        /\ log' = IF r # "ok" /\ c > 0
                  THEN Registrar(log, Linea("ERROR", MensajesConectar[c], j.ip, <<>>, <<>>, r))
                  ELSE log
        /\ UNCHANGED <<entorno, reloj, dir, pc, leidas, cola, ahora, pendientes,
                       ejecucion, historia>>

\* conectar_ssh, and the `if ssh_client` of respaldar_router.
Conectar(i) ==
    LET j == trabajo[i]
        r == red[j.ip].conexion
        c == Clausula(ClausulasConectar, r)
    IN  /\ j.pc = "conectar"
        /\ ~Colgado(j)
        /\ trabajo' = [trabajo EXCEPT ![i] =
              IF r = "ok"
              THEN [j EXCEPT !.conexiones = @ + 1, !.sesion = "abierta", !.pc = "abrir_sftp"]
              ELSE IF c > 0
                   THEN [j EXCEPT !.conexiones = @ + 1, !.pc = "terminado"]
                   ELSE [j EXCEPT !.conexiones = @ + 1, !.pc = "terminado", !.escapada = r]]
        /\ log' = IF r # "ok" /\ c > 0
                  THEN Registrar(log, Linea("ERROR", MensajesConectar[c], j.ip, <<>>, <<>>, r))
                  ELSE log
        /\ UNCHANGED <<entorno, reloj, dir, pc, leidas, cola, ahora, pendientes,
                       ejecucion, historia>>

\* Mutant: descargar_archivos without its `except OSError`.
ClausulasArchivos_SinOSError == <<"SSHException">>

\* The except clauses of descargar_archivos, and their messages.
ClausulasArchivos == <<"SSHException", "OSError">>
MensajesArchivos ==
    <<"Error de conexion SSH al descargar archivos para el router",
      "Error de sistema al descargar archivos para el router">>

\* Mutant: the session is closed at the end of the try body, not in a finally.
ExcepcionEnArchivos_SinFinally(j, e) ==
    IF Clausula(ClausulasArchivos, e) > 0
    THEN [j EXCEPT !.pc = "terminado"]
    ELSE [j EXCEPT !.pc = "terminado", !.escapada = e]

\* An exception e reaches the try of descargar_archivos: a clause logs it or it
\* goes on to the caller; either way the finally clause runs next.
ExcepcionEnArchivos(j, e) ==
    IF Clausula(ClausulasArchivos, e) > 0
    THEN [j EXCEPT !.pc = "cerrar"]
    ELSE [j EXCEPT !.pc = "cerrar", !.escapada = e]
LogExcepcionEnArchivos(l, j, e) ==
    LET c == Clausula(ClausulasArchivos, e)
    IN  IF c > 0
        THEN Registrar(l, Linea("ERROR", MensajesArchivos[c], "", j.nombre, <<>>, e))
        ELSE l

\* descargar_archivos up to ssh_client.open_sftp().
AbrirSftp(i) ==
    LET j == trabajo[i]
        r == red[j.ip].sftp
        jf == [j EXCEPT !.fecha = Strftime(reloj)]
    IN  /\ j.pc = "abrir_sftp"
        /\ ~Colgado(j)
        /\ trabajo' = [trabajo EXCEPT ![i] =
              IF r = "ok" THEN [jf EXCEPT !.pc = "listar"] ELSE ExcepcionEnArchivos(jf, r)]
        /\ log' = IF r = "ok" THEN log ELSE LogExcepcionEnArchivos(log, j, r)
        /\ UNCHANGED <<entorno, reloj, dir, pc, leidas, cola, ahora, pendientes,
                       ejecucion, historia>>

\* sftp_client.listdir(".")
Listar(i) ==
    LET j == trabajo[i]
        r == red[j.ip].listar
    IN  /\ j.pc = "listar"
        /\ ~Colgado(j)
        /\ trabajo' = [trabajo EXCEPT ![i] =
              IF r = "ok"
              THEN [j EXCEPT !.listado = red[j.ip].remotos, !.k = 1, !.pc = "archivos"]
              ELSE ExcepcionEnArchivos(j, r)]
        /\ log' = IF r = "ok" THEN log ELSE LogExcepcionEnArchivos(log, j, r)
        /\ UNCHANGED <<entorno, reloj, dir, pc, leidas, cola, ahora, pendientes,
                       ejecucion, historia>>

\* Mutant: descargar_archivo catches the protocol errors only.
ClausulasArchivo_SoloSSH == <<"SSHException">>

\* The except clauses of descargar_archivo, and their messages.
ClausulasArchivo == <<"FileNotFoundError", "PermissionError", "SSHException", "OSError">>
MensajesArchivo ==
    <<"Archivo no encontrado",
      "Permiso denegado al descargar archivo",
      "Error SSH al descargar el archivo",
      "Error de sistema al descargar archivo">>

\* The for loop goes on to the next wanted file, or ends (and with it the
\* with block and the try).
SiguienteArchivo(j) ==
    [j EXCEPT !.k = @ + 1,
              !.pc = IF j.k = Len(archivos_deseados) THEN "cerrar" ELSE "archivos"]

\* Mutant: the file is downloaded without looking at the listing.
Archivo_SinListado(i) ==
    LET j == trabajo[i]
        archivo == archivos_deseados[j.k]
        g == red[j.ip].get[j.k]
        nuevo_nombre_archivo == NombreLocal(j.nombre, j.fecha, archivo)
        c == Clausula(ClausulasArchivo, g.exc)
    IN  /\ j.pc = "archivos"
        /\ IF TRUE
           THEN /\ dir' = IF g.local
                          THEN [n \in DOMAIN dir \cup {nuevo_nombre_archivo} |->
                                  IF n = nuevo_nombre_archivo
                                  THEN Entrada(reloj, "ninguna") ELSE dir[n]]
                          ELSE dir
                /\ LET jg == [j EXCEPT
                                !.intentados = @ \cup {archivo},
                                !.escritos = IF g.local THEN @ \cup {nuevo_nombre_archivo} ELSE @]
                   IN  trabajo' = [trabajo EXCEPT ![i] =
                          IF g.exc = "ok" \/ c > 0 THEN SiguienteArchivo(jg)
                          ELSE ExcepcionEnArchivos(jg, g.exc)]
                /\ log' =
                     IF g.exc = "ok"
                     THEN Registrar(log, Linea("INFO", "descargado correctamente",
                                               "", j.nombre, archivo, "ok"))
                     ELSE IF c > 0
                          THEN Registrar(log, Linea("ERROR", MensajesArchivo[c],
                                                    "", <<>>, archivo, g.exc))
                          ELSE LogExcepcionEnArchivos(log, j, g.exc)
           ELSE /\ dir' = dir
                /\ trabajo' = [trabajo EXCEPT ![i] = SiguienteArchivo(j)]
                /\ log' = Registrar(log, Linea("WARNING", "no encontrado en el router",
                                               "", j.nombre, archivo, "ok"))
        /\ UNCHANGED <<entorno, reloj, pc, leidas, cola, ahora, pendientes,
                       ejecucion, historia>>

\* One iteration of the for loop of descargar_archivos: descargar_archivo for
\* a wanted file that the listing holds, a warning for one it does not hold.
Archivo(i) ==
    LET j == trabajo[i]
        archivo == archivos_deseados[j.k]
        g == red[j.ip].get[j.k]
        nuevo_nombre_archivo == NombreLocal(j.nombre, j.fecha, archivo)
        c == Clausula(ClausulasArchivo, g.exc)
    IN  /\ j.pc = "archivos"
        /\ IF archivo \in j.listado
           THEN /\ dir' = IF g.local
                          THEN [n \in DOMAIN dir \cup {nuevo_nombre_archivo} |->
                                  IF n = nuevo_nombre_archivo
                                  THEN Entrada(reloj, "ninguna") ELSE dir[n]]
                          ELSE dir
                /\ LET jg == [j EXCEPT
                                !.intentados = @ \cup {archivo},
                                !.escritos = IF g.local THEN @ \cup {nuevo_nombre_archivo} ELSE @]
                   IN  trabajo' = [trabajo EXCEPT ![i] =
                          IF g.exc = "ok" \/ c > 0 THEN SiguienteArchivo(jg)
                          ELSE ExcepcionEnArchivos(jg, g.exc)]
                /\ log' =
                     IF g.exc = "ok"
                     THEN Registrar(log, Linea("INFO", "descargado correctamente",
                                               "", j.nombre, archivo, "ok"))
                     ELSE IF c > 0
                          THEN Registrar(log, Linea("ERROR", MensajesArchivo[c],
                                                    "", <<>>, archivo, g.exc))
                          ELSE LogExcepcionEnArchivos(log, j, g.exc)
           ELSE /\ dir' = dir
                /\ trabajo' = [trabajo EXCEPT ![i] = SiguienteArchivo(j)]
                /\ log' = Registrar(log, Linea("WARNING", "no encontrado en el router",
                                               "", j.nombre, archivo, "ok"))
        /\ UNCHANGED <<entorno, reloj, pc, leidas, cola, ahora, pendientes,
                       ejecucion, historia>>

\* The finally clause of descargar_archivos; the job's function returns, or
\* the exception no clause caught leaves it.
Cerrar(i) ==
    LET j == trabajo[i]
    IN  /\ j.pc = "cerrar"
        /\ trabajo' = [trabajo EXCEPT ![i] =
              [j EXCEPT !.sesion = "cerrada", !.cierres = @ + 1, !.pc = "terminado"]]
        /\ UNCHANGED <<entorno, reloj, dir, log, pc, leidas, cola, ahora, pendientes,
                       ejecucion, historia>>

(***************************************************************************)
(* The main thread: the __main__ block.                                    *)
(***************************************************************************)
\* open("rt.csv"): a missing file ends the process with FileNotFoundError.
AbrirCsv ==
    /\ pc = "inicio"
    /\ pc' = IF csv.existe THEN "leyendo" ELSE "abortado"
    /\ UNCHANGED <<entorno, reloj, dir, log, leidas, cola, trabajo, ahora, pendientes,
                   ejecucion, historia>>

\* One iteration of `for fila in lector_csv`: the reader yields the next row,
\* fila[0] and fila[1] are taken (IndexError on a shorter row, which leaves the
\* with blocks) and the job is submitted to the executor.
LeerFila ==
    /\ pc = "leyendo"
    /\ leidas < Len(csv.filas)
    /\ leidas' = leidas + 1
    /\ LET fila == csv.filas[leidas + 1]
       IN  IF Len(fila) < 2
           THEN /\ pc' = "abortando"
                /\ UNCHANGED <<cola, trabajo>>
           ELSE /\ pc' = pc
                /\ trabajo' = Append(trabajo, NuevoTrabajo(fila[1], fila[2]))
                /\ cola' = Append(cola, Len(trabajo) + 1)
    /\ UNCHANGED <<entorno, reloj, dir, log, ahora, pendientes,
                   ejecucion, historia>>

\* The reader is exhausted: the for loop ends and the with block of the
\* executor is left, which calls shutdown(wait=True).
FinLectura ==
    /\ pc = "leyendo"
    /\ leidas = Len(csv.filas)
    /\ pc' = "esperando"
    /\ UNCHANGED <<entorno, reloj, dir, log, leidas, cola, trabajo, ahora, pendientes,
                   ejecucion, historia>>

\* Mutant: shutdown(wait=False).
Barrera_SinEsperar ==
    /\ pc = "esperando"
    /\ pc' = "rotar"
    /\ UNCHANGED <<entorno, reloj, dir, log, leidas, cola, trabajo, ahora, pendientes,
                   ejecucion, historia>>

\* Every submitted job has run.
PoolOcioso == cola = <<>> /\ TodosTerminados

\* shutdown(wait=True) returns once every submitted job has run.
Barrera ==
    /\ pc = "esperando"
    /\ PoolOcioso
    /\ pc' = "rotar"
    /\ UNCHANGED <<entorno, reloj, dir, log, leidas, cola, trabajo, ahora, pendientes,
                   ejecucion, historia>>

\* The same wait when IndexError leaves the with block; the exception then
\* ends the process.
Abortar ==
    /\ pc = "abortando"
    /\ PoolOcioso
    /\ pc' = "abortado"
    /\ UNCHANGED <<entorno, reloj, dir, log, leidas, cola, trabajo, ahora, pendientes,
                   ejecucion, historia>>

(***************************************************************************)
(* renombrar_backups_antiguos                                              *)
(***************************************************************************)
\* Mutant: the renamed files are not told apart.
EsCandidato_SinOld(archivo) == EndsWithAny(archivo, {EXT_RSC, EXT_BACKUP})

\* archivo.endswith((".rsc", ".backup")) and not archivo.endswith(("-old.rsc", "-old.backup"))
EsCandidato(archivo) ==
    /\ EndsWithAny(archivo, {EXT_RSC, EXT_BACKUP})
    /\ ~EndsWithAny(archivo, {OLD \o EXT_RSC, OLD \o EXT_BACKUP})

\* Mutant: antiguedad_dias >= DIAS_MAXIMOS.
EsAntiguo_MayorIgual(t, fecha_creacion) ==
    (t - fecha_creacion) >= DIAS_MAXIMOS * SEGUNDOS_DIA

\* antiguedad_dias > DIAS_MAXIMOS, with antiguedad_dias the quotient
\* (ahora - fecha_creacion) / (24 * 3600) of real numbers
EsAntiguo(t, fecha_creacion) ==
    (t - fecha_creacion) > DIAS_MAXIMOS * SEGUNDOS_DIA

\* archivo.replace(".rsc", "-old.rsc").replace(".backup", "-old.backup")
NuevoNombre(archivo) ==
    Replace(Replace(archivo, EXT_RSC, OLD \o EXT_RSC), EXT_BACKUP, OLD \o EXT_BACKUP)

\* os.rename(viejo, nuevo): an existing `nuevo` is replaced.  The renamed
\* file's getctime is the time of the rename on POSIX (the inode changed) and
\* stays the creation time on Windows.
Rename(d, viejo, nuevo, t) ==
    [n \in (DOMAIN d \ {viejo}) \cup {nuevo} |->
        IF n = nuevo
        THEN [d[viejo] EXCEPT !.ctime = IF plataforma = "posix" THEN t ELSE @]
        ELSE d[n]]

\* What the body of the try does for one entry: "nada" (no rename), "ok" (the
\* rename was done) or the exception os.path.getctime or os.rename raises.
ResultadoRotar(d, archivo, t) ==
    IF ~EsCandidato(archivo) THEN "nada"
    ELSE IF archivo \notin DOMAIN d \/ d[archivo].falla = "FileNotFoundError"
         THEN "FileNotFoundError"
    ELSE IF ~EsAntiguo(t, d[archivo].ctime) THEN "nada"
    ELSE IF d[archivo].falla # "ninguna" THEN d[archivo].falla
    ELSE IF plataforma = "nt" /\ NuevoNombre(archivo) \in DOMAIN d THEN "FileExistsError"
    ELSE "ok"

ClausulasRotar == <<"FileNotFoundError", "PermissionError", "OSError">>
MensajesRotar ==
    <<"Archivo no encontrado",
      "Permiso denegado al renombrar archivo",
      "Error de sistema al renombrar archivo">>

\* os.listdir returns the entries in arbitrary order: an order of the entries
\* and its reverse stand for the orders the file system may give.
RECURSIVE EnOrden(_)
EnOrden(S) ==
    IF S = {} THEN <<>>
    ELSE LET x == CHOOSE y \in S : TRUE IN <<x>> \o EnOrden(S \ {x})
Reverso(s) == [k \in 1..Len(s) |-> s[Len(s) + 1 - k]]
Listdir(d) == {EnOrden(DOMAIN d), Reverso(EnOrden(DOMAIN d))}

\* ahora = time.time() and os.listdir(backup_path)
IniciarRotacion ==
    /\ pc = "rotar"
    /\ ahora' = reloj
    /\ pendientes' \in Listdir(dir)
    /\ dirRotacion' = dir
    /\ renombres' = {}
    /\ repetida' = (previa.hecha /\ previa.ahora = reloj /\ previa.dir = dir)
    /\ pc' = "rotando"
    /\ UNCHANGED <<entorno, reloj, dir, log, leidas, cola, trabajo,
                   ejecucion, pasadas, previa>>

\* One iteration of the for loop over os.listdir.
RotarArchivo ==
    /\ pc = "rotando"
    /\ pendientes # <<>>
    /\ LET archivo == Head(pendientes)
           r == ResultadoRotar(dir, archivo, ahora)
           nuevo_nombre == NuevoNombre(archivo)
           c == Clausula(ClausulasRotar, r)
       IN    /\ pendientes' = Tail(pendientes)
             /\ dir' = IF r = "ok" THEN Rename(dir, archivo, nuevo_nombre, reloj) ELSE dir
             /\ renombres' = IF r = "ok"
                             THEN renombres \cup {<<archivo, nuevo_nombre>>}
                             ELSE renombres
             /\ log' = IF r = "ok"
                       THEN Registrar(log, Linea("INFO", "renombrado a", "", nuevo_nombre, archivo, "ok"))
                       ELSE IF r # "nada" /\ c > 0
                            THEN Registrar(log, Linea("ERROR", MensajesRotar[c], "", <<>>, archivo, r))
                            ELSE log
             /\ pc' = IF r \in {"ok", "nada"} \/ c > 0 THEN pc ELSE "abortado"
    /\ UNCHANGED <<entorno, reloj, leidas, cola, trabajo, ahora,
                   ejecucion, dirRotacion, pasadas, previa, repetida>>

\* The for loop ends and the process exits.
FinRotacion ==
    /\ pc = "rotando"
    /\ pendientes = <<>>
    /\ pc' = "fin"
    /\ pasadas' = pasadas + 1
    /\ previa' = [hecha |-> TRUE, ahora |-> ahora, renombres |-> renombres, dir |-> dir]
    /\ UNCHANGED <<entorno, reloj, dir, log, leidas, cola, trabajo, ahora, pendientes,
                   ejecucion, dirRotacion, renombres, repetida>>

(***************************************************************************)
(* The scheduler starts the program again, at once or a week later.        *)
(***************************************************************************)
NuevaEjecucion ==
    /\ pc \in {"fin", "abortado"}
    /\ ejecucion < MaxRuns
    /\ ejecucion' = ejecucion + 1
    /\ \E d \in {0, Semana} : reloj' = reloj + d
    /\ pc' = "inicio"
    /\ leidas' = 0
    /\ cola' = <<>>
    /\ trabajo' = <<>>
    /\ ahora' = 0
    /\ pendientes' = <<>>
    /\ dirRotacion' = <<>>
    /\ renombres' = {}
    /\ pasadas' = 0
    /\ repetida' = FALSE
    /\ UNCHANGED <<entorno, dir, log, previa>>

Paso ==
    \/ AbrirCsv
    \/ LeerFila
    \/ FinLectura
    \/ \E i \in Trabajos : Empezar(i)
    \/ \E i \in Trabajos : Conectar(i)
    \/ \E i \in Trabajos : AbrirSftp(i)
    \/ \E i \in Trabajos : Listar(i)
    \/ \E i \in Trabajos : Archivo(i)
    \/ \E i \in Trabajos : Cerrar(i)
    \/ Barrera
    \/ Abortar
    \/ IniciarRotacion
    \/ RotarArchivo
    \/ FinRotacion

Next == Paso \/ NuevaEjecucion

Spec == Init /\ [][Next]_vars

\* The threads are scheduled and every call that returns at all does so in the
\* end: a step of the run that stays possible is taken.  Nothing obliges the
\* scheduler to start a new run.
FairSpec == Spec /\ WF_vars(Paso)

\* One run under the same scheduling, among routers some of which may never
\* answer.
InitJusta == (FlotasGrandes \/ FlotasConCuelgue \/ ParConCuelgue \/ UnRouter) /\ InitResto
SpecJusta == InitJusta /\ [][Paso]_vars /\ WF_vars(Paso)

(***************************************************************************)
(* Properties.                                                             *)
(***************************************************************************)
LineasLog == BagToSet(log)
Visitados == DOMAIN dirRotacion \ {pendientes[k] : k \in 1..Len(pendientes)}
Umbral == DIAS_MAXIMOS * SEGUNDOS_DIA

\* rt.csv exists and every row has the two fields the program takes.
CsvBienFormado ==
    /\ csv.existe
    /\ \A k \in 1..Len(csv.filas) : Len(csv.filas[k]) >= 2

\* A router with which nothing fails.
Sano(p) ==
    /\ p.conexion = "ok" /\ p.sftp = "ok" /\ p.listar = "ok"
    /\ \A k \in 1..Len(archivos_deseados) :
          archivos_deseados[k] \in p.remotos => p.get[k].exc = "ok"

\* The job ran to its end and left every export its router holds.
Completo(j) ==
    /\ j.pc = "terminado"
    /\ j.escapada = "ninguna"
    /\ j.sesion = "cerrada"
    /\ j.escritos =
          {NombreLocal(j.nombre, Strftime(reloj), archivos_deseados[k]) :
              k \in {m \in 1..Len(archivos_deseados) :
                        archivos_deseados[m] \in red[j.ip].remotos}}
    /\ j.escritos \subseteq DOMAIN dir

\* C1: at no time are more than MAX_WORKERS (4) sessions open, whatever the
\* number of routers and the interleaving of the jobs.
C1_SessionsBounded == SesionesAbiertas <= MAX_WORKERS

\* C1 witness: four sessions are open while a fifth job waits in the queue.
C1_Witness == SesionesAbiertas = MAX_WORKERS /\ cola # <<>>

\* C2: the rotation pass runs at most once in a run, exactly once in a run
\* that ends normally, and only when every row has been dispatched and every
\* dispatched job has finished: no rename happens while a job is running.
C2_RotationAfterBarrier ==
    /\ pasadas <= 1
    /\ pc = "rotando" => pasadas = 0
    /\ pc = "fin" => pasadas = 1
    /\ (pc \in {"rotar", "rotando", "fin"} \/ renombres # {} \/ pasadas > 0) =>
          /\ TodosTerminados
          /\ cola = <<>>
          /\ Len(trabajo) = Len(csv.filas)

\* C2 witness: a run ended whose jobs downloaded files and whose rotation
\* pass renamed an old backup.
C2_Witness ==
    /\ pc = "fin"
    /\ renombres # {}
    /\ \E i \in Trabajos : trabajo[i].escritos # {}

\* A step of the run is possible: the main thread is not blocked in
\* shutdown, or a job is running and not inside a call that never returns, or
\* a free worker can take the next job.
HayPaso ==
    \/ pc \in {"inicio", "leyendo", "rotar", "rotando"}
    \/ pc \in {"esperando", "abortando"} /\ PoolOcioso
    \/ \E i \in Trabajos :
          \/ EnCurso(trabajo[i]) /\ ~Colgado(trabajo[i])
          \/ PuedeEmpezar(i)

\* HayPaso is the enabling condition of Paso.
HayPasoEsEnabled == HayPaso <=> ENABLED <<Paso>>_vars

\* C3: whatever routers fail at connect or fetch, a run that could read its
\* router list goes on until it ends: while it has not ended a step of it is
\* possible, and when it has ended every job is over, every export of every
\* healthy router is in the directory, and the rotation pass has run.
C3_FailureIsolation ==
    CsvBienFormado =>
        IF pc = "fin"
        THEN /\ pasadas = 1
             /\ Len(trabajo) = Len(csv.filas)
             /\ \A i \in Trabajos :
                   /\ trabajo[i].pc = "terminado"
                   /\ Sano(red[trabajo[i].ip]) => Completo(trabajo[i])
        ELSE HayPaso

\* C3 witness: a run ended with its rotation pass, in which one router could
\* not be connected to and another one's exports were all downloaded.
C3_Witness ==
    /\ pc = "fin"
    /\ pasadas = 1
    /\ \E i \in Trabajos : red[trabajo[i].ip].conexion # "ok" /\ trabajo[i].pc = "terminado"
    /\ \E i \in Trabajos :
          /\ Sano(red[trabajo[i].ip])
          /\ Completo(trabajo[i])
          /\ Cardinality(trabajo[i].escritos) = Len(archivos_deseados)

\* C4 (as claimed): no step removes a backup file: the number of files in the
\* backup directory never decreases.
C4_NoFileRemoved == [][Cardinality(DOMAIN dir') >= Cardinality(DOMAIN dir)]_vars

\* C5: the fetcher closes the session it is given exactly once on every exit
\* path: a session stays open only while the fetcher runs, close is never
\* called twice, and once the job is over close has been called once.
C5_SessionClosedOnce ==
    \A i \in Trabajos :
        LET j == trabajo[i]
        IN  /\ j.cierres <= 1
            /\ j.sesion = "abierta" =>
                  j.cierres = 0 /\ j.pc \in {"abrir_sftp", "listar", "archivos", "cerrar"}
            /\ (j.pc = "terminado" /\ j.sesion # "ninguna") =>
                  j.sesion = "cerrada" /\ j.cierres = 1

\* C5 witness: a job is over whose listing failed, and its session is closed.
C5_Witness ==
    \E i \in Trabajos :
        /\ trabajo[i].pc = "terminado"
        /\ red[trabajo[i].ip].sftp = "ok"
        /\ red[trabajo[i].ip].listar # "ok"
        /\ trabajo[i].cierres = 1

\* The failures the fetcher met in job j: <<exception, file>> (file <<>> for
\* the channel and the listing).
FallosFetch(j) ==
    LET p == red[j.ip]
    IN  IF p.sftp # "ok" THEN {<<p.sftp, <<>>>>}
        ELSE IF p.listar # "ok" THEN {<<p.listar, <<>>>>}
        ELSE {<<p.get[k].exc, archivos_deseados[k]>> :
                 k \in {m \in 1..Len(archivos_deseados) :
                           /\ archivos_deseados[m] \in p.remotos
                           /\ p.get[m].exc # "ok"}}

\* C6: no failure leaves the fetcher: whatever fails while the channel is
\* opened, the directory listed or a file downloaded, the call returns
\* normally and the log holds an ERROR line for the failure.
C6_FetcherNeverThrows ==
    \A i \in Trabajos :
        LET j == trabajo[i]
        IN  j.sesion # "ninguna" =>
              /\ j.escapada = "ninguna"
              /\ j.pc = "terminado" =>
                    \A f \in FallosFetch(j) :
                        \E l \in LineasLog :
                            /\ l.nivel = "ERROR"
                            /\ l.exc = f[1]
                            /\ l.archivo = f[2]
                            /\ f[2] = <<>> => l.router = j.nombre

\* C6 witness: a call of the fetcher is over in which the listing failed with
\* a system error.
C6_Witness ==
    \E i \in Trabajos :
        /\ trabajo[i].pc = "terminado"
        /\ trabajo[i].sesion = "cerrada"
        /\ trabajo[i].escapada = "ninguna"
        /\ red[trabajo[i].ip].sftp = "ok"
        /\ red[trabajo[i].ip].listar = "OSError"

\* C7: for a wanted name that the remote listing does not hold, the fetcher
\* logs a warning, calls no download and writes no local file; the other
\* wanted name is downloaded when the listing holds it.
C7_AbsentFileSkipped ==
    \A i \in Trabajos :
        LET j == trabajo[i]
        IN  \A k \in 1..Len(archivos_deseados) :
              (j.k > k /\ archivos_deseados[k] \notin j.listado) =>
                 /\ Linea("WARNING", "no encontrado en el router", "", j.nombre,
                          archivos_deseados[k], "ok") \in LineasLog
                 /\ archivos_deseados[k] \notin j.intentados
                 /\ NombreLocal(j.nombre, j.fecha, archivos_deseados[k]) \notin j.escritos
                 /\ \A m \in 1..Len(archivos_deseados) :
                       (j.k > m /\ archivos_deseados[m] \in j.listado) =>
                          archivos_deseados[m] \in j.intentados

\* C7 witness: a job is over whose router holds latest.backup and not
\* latest.rsc: the one was downloaded, the other was not.
C7_Witness ==
    \E i \in Trabajos :
        LET j == trabajo[i]
        IN  /\ j.pc = "terminado"
            /\ j.k > Len(archivos_deseados)
            /\ LATEST_RSC \notin j.listado
            /\ LATEST_BACKUP \in j.listado
            /\ j.intentados = {LATEST_BACKUP}
            /\ NombreLocal(j.nombre, j.fecha, LATEST_BACKUP) \in DOMAIN dir

\* C8: a rotation pass over the directory a completed pass left, at the same
\* clock reading, renames nothing.
C8_RotationIdempotent == repetida => renombres = {}

\* C8 witness: a second pass has visited every entry of the directory that a
\* first pass, which renamed files, left.
C8_Witness ==
    /\ repetida
    /\ pc = "rotando"
    /\ pendientes = <<>>
    /\ previa.renombres # {}

\* '-old' put immediately before the final extension, nothing else changed.
ConOld(nombre) ==
    LET ext == IF EndsWith(nombre, EXT_RSC) THEN EXT_RSC ELSE EXT_BACKUP
    IN  SubSeq(nombre, 1, Len(nombre) - Len(ext)) \o OLD \o ext

\* C9 (as claimed): a file downloaded for router R on date D with name N is
\* stored as R_D_N, and a rotated file's new name is its old name with '-old'
\* immediately before the final extension and every other character unchanged.
C9_Naming ==
    /\ \A i \in Trabajos : \A n \in trabajo[i].escritos :
          \E k \in 1..Len(archivos_deseados) :
              n = trabajo[i].nombre \o <<"_">> \o Strftime(reloj) \o <<"_">>
                    \o archivos_deseados[k]
    /\ \A r \in renombres : r[2] = ConOld(r[1])

\* C10: a visited candidate whose age is exactly the threshold is not
\* renamed; one whose age is a second more, and whose rename the file system
\* accepts, is renamed.
C10_AgeBoundary ==
    pc \in {"rotando", "fin"} =>
        \A n \in Visitados :
            EsCandidato(n) =>
                /\ ahora - dirRotacion[n].ctime = Umbral =>
                      /\ n \in DOMAIN dir
                      /\ \A r \in renombres : r[1] # n
                /\ (/\ ahora - dirRotacion[n].ctime = Umbral + 1
                    /\ dirRotacion[n].falla = "ninguna"
                    /\ ~(plataforma = "nt" /\ NuevoNombre(n) \in DOMAIN dirRotacion)) =>
                      /\ n \notin DOMAIN dir
                      /\ \E r \in renombres : r[1] = n

\* C10 witness: a pass is over that left a candidate of exactly the threshold
\* age in place and renamed one a second older.
C10_Witness ==
    /\ pc = "fin"
    /\ \E n \in DOMAIN dirRotacion :
          /\ EsCandidato(n)
          /\ ahora - dirRotacion[n].ctime = Umbral
          /\ n \in DOMAIN dir
    /\ \E n \in DOMAIN dirRotacion :
          /\ EsCandidato(n)
          /\ ahora - dirRotacion[n].ctime = Umbral + 1
          /\ \E r \in renombres : r[1] = n

\* C11 (as claimed): two distinct jobs of a run never write the same local
\* file: the sets of local paths written by any two jobs are disjoint.
C11_DisjointWrites ==
    \A i \in Trabajos : \A m \in Trabajos :
        i # m => trabajo[i].escritos \cap trabajo[m].escritos = {}

\* C12 (as claimed): no job is submitted, and so none started, before the
\* last row of rt.csv has been read.
C12_ReadBeforeDispatch ==
    trabajo # <<>> => leidas = Len(csv.filas)

C14_FailedConnectSkips ==
    /\ Len(trabajo) <= leidas
    /\ \A i \in Trabajos :
          LET j == trabajo[i]
              r == red[j.ip].conexion
          IN  /\ j.conexiones <= 1
              /\ (j.conexiones > 0 /\ r # "ok") =>
                    /\ j.pc = "terminado"
                    /\ j.sesion = "ninguna"
                    /\ j.escapada = "ninguna"
                    /\ j.cierres = 0
                    /\ j.fecha = <<>> /\ j.listado = {}
                    /\ j.intentados = {} /\ j.escritos = {}
                    /\ \E l \in LineasLog :
                          l.nivel = "ERROR" /\ l.ip = j.ip /\ l.exc = r

\* C14 witness: a run ended in which a router refused the credentials: one
\* connect was made for it and nothing else.
C14_Witness ==
    /\ pc = "fin"
    /\ \E i \in Trabajos :
          /\ red[trabajo[i].ip].conexion = "AuthenticationException"
          /\ trabajo[i].conexiones = 1
          /\ trabajo[i].pc = "terminado"
          /\ trabajo[i].escritos = {}

\* Every call to every router returns.
NadieCuelga == \A ip \in DOMAIN red : ~Cuelga(red[ip])

\* C15: provided every call to a router returns, a run that could read rt.csv
\* (the file exists and is well formed) eventually has started and finished a
\* job for every row, made its rotation pass and ended normally.
C15_RunCompletes ==
    (pc = "inicio" /\ CsvBienFormado /\ NadieCuelga) ~>
        (/\ pc = "fin"
         /\ pasadas = 1
         /\ Len(trabajo) = Len(csv.filas)
         /\ \A i \in Trabajos :
               trabajo[i].pc = "terminado" /\ trabajo[i].conexiones = 1)

\* C15 witness: a run ended normally, after its rotation pass, that had more
\* jobs than workers.
C15_Witness ==
    /\ pc = "fin"
    /\ pasadas = 1
    /\ NadieCuelga
    /\ Len(trabajo) > MAX_WORKERS
    /\ \A i \in Trabajos : trabajo[i].pc = "terminado" /\ trabajo[i].conexiones = 1

\* The rows of rt.csv whose router never answers.
FilasQueCuelgan ==
    {k \in 1..Len(csv.filas) : Len(csv.filas[k]) >= 2 /\ Cuelga(red[csv.filas[k][1]])}

\* C16: a job whose router never answers stays for ever inside its call,
\* holding its worker; the workers it leaves free (when fewer routers are
\* silent than there are workers) still run every other job to its end; and
\* in a run that has submitted such a job the barrier is never passed: no
\* rotation pass starts and nothing is renamed.
C16_HungJobHoldsOneSlot ==
    /\ [][\A i \in Trabajos :
             Colgado(trabajo[i]) => i \in 1..Len(trabajo') /\ Colgado(trabajo'[i])]_vars
    /\ []((\E i \in Trabajos : Cuelga(red[trabajo[i].ip])) =>
             /\ pc \in {"leyendo", "esperando", "abortando"}
             /\ pasadas = 0
             /\ renombres = {})
    /\ (/\ pc = "inicio"
        /\ CsvBienFormado
        /\ FilasQueCuelgan # {}
        /\ Cardinality(FilasQueCuelgan) < MAX_WORKERS) ~>
           (/\ pc = "esperando"
            /\ Len(trabajo) = Len(csv.filas)
            /\ \A i \in Trabajos :
                  IF Cuelga(red[trabajo[i].ip])
                  THEN Colgado(trabajo[i])
                  ELSE trabajo[i].pc = "terminado" /\ trabajo[i].conexiones = 1)

\* C16 witness: the main thread waits at the barrier for a job that is inside
\* a connect that never returns, while every other job of a fleet larger than
\* the pool is over.
C16_Witness ==
    /\ pc = "esperando"
    /\ Len(trabajo) > MAX_WORKERS
    /\ Cardinality({i \in Trabajos : Colgado(trabajo[i])}) = 1
    /\ \A i \in Trabajos : Colgado(trabajo[i]) \/ trabajo[i].pc = "terminado"

\* The entries of the directory the pass started on that are not candidates,
\* or are candidates of at most the threshold age.
FueraDeRotacion ==
    {n \in DOMAIN dirRotacion :
        \/ ~EndsWithAny(n, {EXT_RSC, EXT_BACKUP})
        \/ EndsWithAny(n, {OLD \o EXT_RSC, OLD \o EXT_BACKUP})
        \/ ahora - dirRotacion[n].ctime <= Umbral}

\* The visited candidates on which the file system answered with an error.
FallosRotacion ==
    {n \in Visitados :
        /\ EsCandidato(n)
        /\ dirRotacion[n].falla # "ninguna"
        /\ \/ dirRotacion[n].falla = "FileNotFoundError"
           \/ ahora - dirRotacion[n].ctime > Umbral}

\* C17 (as claimed): a rotation pass leaves every entry that is not a
\* candidate, and every candidate of at most the threshold age, as it was
\* when the pass started; a failure on an entry is logged and the pass goes
\* on with the other entries.
C17_RotationFrame ==
    /\ \A n \in FueraDeRotacion : n \in DOMAIN dir /\ dir[n] = dirRotacion[n]
    /\ \A n \in FallosRotacion :
          /\ pc \in {"rotando", "fin"}
          /\ n \in DOMAIN dir /\ dir[n] = dirRotacion[n]
          /\ \E l \in LineasLog :
                l.nivel = "ERROR" /\ l.archivo = n /\ l.exc = dirRotacion[n].falla

\* C18 (as claimed): the rotation pass renames only backups that are more than
\* 7 days old.
C18_OnlyOlderThanAWeek ==
    \A r \in renombres : ahora - dirRotacion[r[1]].ctime > Semana

====
